---- MODULE Spec2Model ----
(***************************************************************************)
(* A model of mysql_mcp_server/server.py: the four request handlers of     *)
(* the MCP adapter (list_resources, read_resource, list_tools, call_tool), *)
(* configuration resolution, engine construction, and the driver calls     *)
(* each handler makes on its session.                                      *)
(*                                                                         *)
(* Text is modelled by TLA+ strings; every conversion the code performs    *)
(* (strip, upper, startswith, split, join, str, int) is computed.          *)
(***************************************************************************)
EXTENDS Integers, Sequences, FiniteSets, TLC

VARIABLES env, files, db, openSessions, last

vars == <<env, files, db, openSessions, last>>

-----------------------------------------------------------------------------
(* Bounds of the model.                                                    *)

\* Longest content of the small table t.
MaxRows == 2

\* Sessions that may be left open before list_resources is no longer taken.
MaxOpen == 1

\* Row count of the large table g is BigBase or BigBase + BigExtra.
BigExtra == 1

-----------------------------------------------------------------------------
(* Python string operations.                                               *)

Char(s, i) == SubSeq(s, i, i)

\* s[n:]
Drop(s, n) == IF n >= Len(s) THEN "" ELSE SubSeq(s, n + 1, Len(s))

\* s[:n]
Take(s, n) == IF n >= Len(s) THEN s ELSE SubSeq(s, 1, n)

\* s.startswith(p)
StartsWith(s, p) == Len(s) >= Len(p) /\ SubSeq(s, 1, Len(p)) = p

Whitespace == {" ", "\n", "\t"}

RECURSIVE LStrip(_)
LStrip(s) ==
    IF s = "" THEN ""
    ELSE IF Char(s, 1) \in Whitespace THEN LStrip(Drop(s, 1)) ELSE s

RECURSIVE RStrip(_)
RStrip(s) ==
    IF s = "" THEN ""
    ELSE IF Char(s, Len(s)) \in Whitespace THEN RStrip(Take(s, Len(s) - 1)) ELSE s

\* s.strip()
Strip(s) == RStrip(LStrip(s))

LowerLetters == "abcdefghijklmnopqrstuvwxyz"

UpperLetters == "ABCDEFGHIJKLMNOPQRSTUVWXYZ"

\* The upper-case letter of each lower-case letter.
UpperTable ==
    [c \in {Char(LowerLetters, i) : i \in 1..Len(LowerLetters)} |->
        Char(UpperLetters, CHOOSE i \in 1..Len(LowerLetters) : Char(LowerLetters, i) = c)]

UpperChar(c) == IF c \in DOMAIN UpperTable THEN UpperTable[c] ELSE c

RECURSIVE Upper(_)
\* s.upper()
Upper(s) == IF s = "" THEN "" ELSE UpperChar(Char(s, 1)) \o Upper(Drop(s, 1))

\* Index of the first occurrence of the one-character string c in s, or 0.
Find(s, c) ==
    IF \E i \in 1..Len(s) : Char(s, i) = c
    THEN CHOOSE i \in 1..Len(s) : Char(s, i) = c /\ \A j \in 1..(i - 1) : Char(s, j) # c
    ELSE 0

\* s.split(c)[0]
FirstSegment(s, c) == IF Find(s, c) = 0 THEN s ELSE Take(s, Find(s, c) - 1)

RECURSIVE Join(_, _)
\* sep.join(parts)
Join(sep, parts) ==
    IF Len(parts) = 0 THEN ""
    ELSE IF Len(parts) = 1 THEN parts[1]
    ELSE LET half == Len(parts) \div 2
         IN  Join(sep, SubSeq(parts, 1, half)) \o sep
             \o Join(sep, SubSeq(parts, half + 1, Len(parts)))

Digits == "0123456789"

\* The value of each decimal digit.
DigitTable ==
    [c \in {Char(Digits, i) : i \in 1..Len(Digits)} |->
        (CHOOSE i \in 1..Len(Digits) : Char(Digits, i) = c) - 1]

IsDigit(c) == c \in DOMAIN DigitTable

DigitVal(c) == DigitTable[c]

IsNumeral(s) == s # "" /\ \A i \in 1..Len(s) : IsDigit(Char(s, i))

RECURSIVE IntOf(_)
\* int(s) for a string of decimal digits
IntOf(s) == IF s = "" THEN 0 ELSE 10 * IntOf(Take(s, Len(s) - 1)) + DigitVal(Char(s, Len(s)))

\* Database values: integers, strings and NULL (None in Python).
IntV(n) == [t |-> "int", v |-> n]

StrV(s) == [t |-> "str", s |-> s]

NullV == [t |-> "null"]

\* str(value)
Str(val) ==
    CASE val.t = "int" -> ToString(val.v)
      [] val.t = "str" -> val.s
      [] OTHER -> "None"

-----------------------------------------------------------------------------
(* Configuration: get_db_config and create_engine.                         *)

\* An environment variable is <<>> when unset and <<value>> when set.
Getenv(e, name, default) == IF e[name] = <<>> THEN default ELSE <<e[name][1]>>

\* A test for None alone, which lets the empty string through.
IsNotNone(opt) == opt # <<>>

\* Python truthiness of os.getenv's result (None and "" are false).
Truthy(opt) == opt # <<>> /\ opt[1] # ""

MissingConfigMsg == "Missing required database configuration"

CaNotFoundMsg(path) == "SSL CA certificate file not found: " \o path

BadPortMsg(text) == "invalid literal for int() with base 10: '" \o text \o "'"

ConfigError(msg) == [ok |-> FALSE, exc |-> "ValueError", msg |-> msg]

BaseConfig(host, port, user, password, database) ==
    [host |-> host, port |-> port, user |-> user, password |-> password,
     database |-> database]

SslConfig(base, ca) ==
    [k \in DOMAIN base \cup {"ssl_ca", "ssl_verify_cert", "ssl_verify_identity"} |->
        IF k = "ssl_ca" THEN ca
        ELSE IF k \in {"ssl_verify_cert", "ssl_verify_identity"} THEN TRUE
        ELSE base[k]]

get_db_config(e, fs) ==
    LET host == Getenv(e, "MYSQL_HOST", <<"localhost">>)
        portText == Getenv(e, "MYSQL_PORT", <<"3306">>)
        user == Getenv(e, "MYSQL_USER", <<>>)
        password == Getenv(e, "MYSQL_PASSWORD", <<>>)
        database == Getenv(e, "MYSQL_DATABASE", <<>>)
        ssl_ca == Getenv(e, "MYSQL_SSL_CA", <<>>)
    IN  IF ~IsNumeral(Strip(portText[1]))
        THEN ConfigError(BadPortMsg(portText[1]))
        ELSE IF ~(Truthy(user) /\ Truthy(password) /\ Truthy(database))
        THEN ConfigError(MissingConfigMsg)
        ELSE LET base == BaseConfig(host[1], IntOf(Strip(portText[1])), user[1],
                                    password[1], database[1])
             IN  IF Truthy(ssl_ca)
                 THEN IF ssl_ca[1] \in fs
                      THEN [ok |-> TRUE, config |-> SslConfig(base, ssl_ca[1])]
                      ELSE ConfigError(CaNotFoundMsg(ssl_ca[1]))
                 ELSE [ok |-> TRUE, config |-> base]

\* The options create_engine hands to the driver's connect call.
ConnectArgs(config) ==
    IF "ssl_ca" \in DOMAIN config
    THEN [ssl_ca |-> config["ssl_ca"], ssl_verify_cert |-> TRUE]
    ELSE [no_options |-> TRUE]

create_engine(config) ==
    [url |-> "mysql+mysqlconnector://" \o config["user"] \o ":" \o config["password"]
             \o "@" \o config["host"] \o ":" \o ToString(config["port"])
             \o "/" \o config["database"],
     connect_args |-> ConnectArgs(config)]

-----------------------------------------------------------------------------
(* The MySQL server as seen through the driver's cursor.  A database is a  *)
(* sequence of tables in the order SHOW TABLES reports them; a table is a  *)
(* name, its column names and its rows in storage order.                   *)

Table(name, columns, rows) == [name |-> name, columns |-> columns, rows |-> rows]

TableNamesOf(d) == {d[i].name : i \in 1..Len(d)}

TableNamed(d, name) == d[CHOOSE i \in 1..Len(d) : d[i].name = name]

IdentChars ==
    LET all == LowerLetters \o UpperLetters \o Digits \o "_$"
    IN  {Char(all, i) : i \in 1..Len(all)}

\* An identifier MySQL accepts without backtick quoting.
IsPlainIdent(s) == s # "" /\ \A i \in 1..Len(s) : Char(s, i) \in IdentChars

SqlFail(d, msg) ==
    [ok |-> FALSE, msg |-> msg, columns |-> <<>>, rows |-> <<>>,
     rowcount |-> -1, after |-> d]

SqlRows(d, columns, rows) ==
    [ok |-> TRUE, msg |-> "", columns |-> columns, rows |-> rows,
     rowcount |-> Len(rows), after |-> d]

SqlCount(d, n, after) ==
    [ok |-> TRUE, msg |-> "", columns |-> <<>>, rows |-> <<>>,
     rowcount |-> n, after |-> after]

SyntaxErrorMsg == "1064 (42000): You have an error in your SQL syntax"

NoTableMsg(database, name) ==
    "1146 (42S02): Table '" \o database \o "." \o name \o "' doesn't exist"

NoColumnMsg(col) == "1054 (42S22): Unknown column '" \o col \o "' in 'where clause'"

ShowTables(d, database) ==
    SqlRows(d, <<"Tables_in_" \o database>>, [i \in 1..Len(d) |-> <<StrV(d[i].name)>>])

\* SELECT * FROM <name> [LIMIT <n>]; rest is the text after "FROM ".
SelectFrom(d, database, rest) ==
    LET name == FirstSegment(rest, " ")
        tail == Drop(rest, Len(name))
    IN  IF ~IsPlainIdent(name) THEN SqlFail(d, SyntaxErrorMsg)
        ELSE IF ~(tail = "" \/ (StartsWith(Upper(tail), " LIMIT ") /\ IsNumeral(Drop(tail, 7))))
        THEN SqlFail(d, SyntaxErrorMsg)
        ELSE IF name \notin TableNamesOf(d) THEN SqlFail(d, NoTableMsg(database, name))
        ELSE LET tbl == TableNamed(d, name)
                 n == IF tail = "" THEN Len(tbl.rows) ELSE IntOf(Drop(tail, 7))
             IN  SqlRows(d, tbl.columns,
                         IF n >= Len(tbl.rows) THEN tbl.rows ELSE SubSeq(tbl.rows, 1, n))

ColumnIndex(columns, col) == CHOOSE i \in 1..Len(columns) : columns[i] = col

\* DELETE FROM <name> [WHERE <col>=<n>]; rest is the text after "FROM ".
DeleteFrom(d, database, rest) ==
    LET name == FirstSegment(rest, " ")
        tail == Drop(rest, Len(name))
        cond == Drop(tail, 7)
        col == FirstSegment(cond, "=")
        val == Drop(cond, Len(col) + 1)
    IN  IF ~IsPlainIdent(name) THEN SqlFail(d, SyntaxErrorMsg)
        ELSE IF ~(tail = "" \/ (StartsWith(Upper(tail), " WHERE ") /\ IsPlainIdent(col)
                                /\ IsNumeral(val)))
        THEN SqlFail(d, SyntaxErrorMsg)
        ELSE IF name \notin TableNamesOf(d) THEN SqlFail(d, NoTableMsg(database, name))
        ELSE LET tbl == TableNamed(d, name)
             IN  IF tail # "" /\ ~(\E i \in 1..Len(tbl.columns) : tbl.columns[i] = col)
                 THEN SqlFail(d, NoColumnMsg(col))
                 ELSE LET Keep(row) ==
                              tail # "" /\ row[ColumnIndex(tbl.columns, col)] # IntV(IntOf(val))
                          kept == SelectSeq(tbl.rows, Keep)
                      IN  SqlCount(d, Len(tbl.rows) - Len(kept),
                                   [i \in 1..Len(d) |->
                                       IF d[i].name = name
                                       THEN Table(name, tbl.columns, kept) ELSE d[i]])

\* cursor.execute(stmt): the server parses the statement itself; keywords are
\* case-insensitive, identifiers are not.
Execute(d, database, stmt) ==
    LET s == Strip(stmt)
        u == Upper(s)
    IN  IF u = "SHOW TABLES" THEN ShowTables(d, database)
        ELSE IF StartsWith(u, "SELECT * FROM ") THEN SelectFrom(d, database, Drop(s, 14))
        ELSE IF StartsWith(u, "DELETE FROM ") THEN DeleteFrom(d, database, Drop(s, 12))
        ELSE SqlFail(d, SyntaxErrorMsg)

-----------------------------------------------------------------------------
(* Faults: a driver or library call of the request raises.  The class is   *)
(* "Error" for mysql.connector.Error and its subclasses, "Exception" for   *)
(* any other exception (SQLAlchemy's own, TypeError on a None description).*)

NoFault == [at |-> "none", cls |-> "none"]

Fault(at, cls) == [at |-> at, cls |-> cls]

\* raw_connection goes through SQLAlchemy, whose failure is either the driver's
\* Error or SQLAlchemy's own exception; calls on the raw DBAPI cursor and
\* connection raise the driver's Error; iterating a None description raises
\* TypeError.
Faults ==
    {NoFault,
     Fault("raw_connection", "Error"), Fault("raw_connection", "Exception"),
     Fault("execute", "Error"), Fault("description", "Exception"),
     Fault("fetchall", "Error"), Fault("commit", "Error")}

FaultMsg(f) == f.at \o " failed"

\* What the request did to the server: sessions opened and closed, the options
\* of the connect call, the statements executed, whether it committed.
Trace(opened, closed, args, stmts, committed) ==
    [opened |-> opened, closed |-> closed, connect_args |-> args, stmts |-> stmts,
     committed |-> committed]

NoTrace == Trace(0, 0, <<>>, <<>>, FALSE)

\* An exception leaves a try body.
Raised(cls, msg, fired, trace, after) ==
    [raised |-> TRUE, cls |-> cls, msg |-> msg, value |-> <<>>, fired |-> fired,
     trace |-> trace, after |-> after]

\* A try body returns.
Returned(value, trace, after) ==
    [raised |-> FALSE, cls |-> "", msg |-> "", value |-> <<value>>, fired |-> NoFault,
     trace |-> trace, after |-> after]

-----------------------------------------------------------------------------
(* Results of a handler, as the transport sees them, with what the request *)
(* did to the server.  error is the exception that left the handler's try  *)
(* body, <<>> when none did.                                               *)

Raise(exc, msg, body) ==
    [kind |-> "raise", exc |-> exc, msg |-> msg, text |-> "", content |-> <<>>,
     resources |-> <<>>, tools |-> <<>>,
     error |-> IF body.raised THEN <<[cls |-> body.cls, msg |-> body.msg]>> ELSE <<>>,
     fired |-> body.fired, trace |-> body.trace, after |-> body.after]

Return(text, content, resources, tools, body) ==
    [kind |-> "return", exc |-> "", msg |-> "", text |-> text, content |-> content,
     resources |-> resources, tools |-> tools,
     error |-> IF body.raised THEN <<[cls |-> body.cls, msg |-> body.msg]>> ELSE <<>>,
     fired |-> body.fired, trace |-> body.trace, after |-> body.after]

\* The request never reached its try body.
NoBody(d) == Returned("", NoTrace, d)

Resource(table) ==
    [uri |-> "mysql://" \o table \o "/data", name |-> "Table: " \o table,
     mimeType |-> "text/plain", description |-> "Data in table: " \o table]

TextContent(text) == [type |-> "text", text |-> text]

Tool(name) ==
    [name |-> name, description |-> "Execute an SQL query on the MySQL server",
     required |-> <<"query">>]

-----------------------------------------------------------------------------
(* list_resources                                                          *)

\* except Error: only the driver's exception class is handled.
ListResourcesCatches(cls) == cls = "Error"

\* The try body: the with block manages the cursor; nothing closes the
\* connection raw_connection() returned.
ListResourcesBody(config, d, f) ==
    LET engine == create_engine(config)
        args == <<engine.connect_args>>
        stmt == "SHOW TABLES"
        res == Execute(d, config["database"], stmt)
        tr == Trace(1, 0, args, <<stmt>>, FALSE)
        inner ==
            IF f.at = "execute" THEN Raised(f.cls, FaultMsg(f), f, tr, d)
            ELSE IF ~res.ok THEN Raised("Error", res.msg, NoFault, tr, d)
            ELSE IF f.at = "fetchall" THEN Raised(f.cls, FaultMsg(f), f, tr, d)
            ELSE Returned([i \in 1..Len(res.rows) |-> Resource(Str(res.rows[i][1]))], tr, d)
    IN  IF f.at = "raw_connection"
        THEN Raised(f.cls, FaultMsg(f), f, Trace(0, 0, args, <<>>, FALSE), d)
        ELSE inner

list_resources(e, fs, d, f) ==
    LET cfg == get_db_config(e, fs)
    IN  IF ~cfg.ok THEN Raise(cfg.exc, cfg.msg, NoBody(d))
        ELSE LET body == ListResourcesBody(cfg.config, d, f)
             IN  IF ~body.raised THEN Return("", <<>>, body.value[1], <<>>, body)
                 ELSE IF ListResourcesCatches(body.cls) THEN Return("", <<>>, <<>>, <<>>, body)
                 ELSE Raise(body.cls, body.msg, body)

-----------------------------------------------------------------------------
(* read_resource                                                           *)

\* A handler that catches the driver's errors only, as list_resources does.
ReadResourceCatchesDriverError(cls) == cls = "Error"

\* except Exception
ReadResourceCatches(cls) == cls \in {"Error", "Exception"}

\* [",".join(map(str, row)) for row in rows], joined under the column header.
ReadResourceText(columns, rows) ==
    LET result == [i \in 1..Len(rows) |->
                      Join(",", [j \in 1..Len(rows[i]) |-> Str(rows[i][j])])]
    IN  Join("\n", <<Join(",", columns)>> \o result)

ReadResourceBody(config, d, table, f) ==
    LET engine == create_engine(config)
        args == <<engine.connect_args>>
        stmt == "SELECT * FROM " \o table \o " LIMIT 100"
        res == Execute(d, config["database"], stmt)
        tr == Trace(1, 1, args, <<stmt>>, FALSE)
        inner ==
            IF f.at = "execute" THEN Raised(f.cls, FaultMsg(f), f, tr, d)
            ELSE IF ~res.ok THEN Raised("Error", res.msg, NoFault, tr, d)
            ELSE IF f.at = "description" THEN Raised(f.cls, FaultMsg(f), f, tr, d)
            ELSE IF f.at = "fetchall" THEN Raised(f.cls, FaultMsg(f), f, tr, d)
            ELSE Returned(ReadResourceText(res.columns, res.rows), tr, d)
    IN  IF f.at = "raw_connection"
        THEN Raised(f.cls, FaultMsg(f), f, Trace(0, 0, args, <<>>, FALSE), d)
        ELSE inner

\* The whole path taken as the table name, without split('/').
UriTableWholePath(uri_str) == Drop(uri_str, 8)

\* parts = uri_str[8:].split('/'); table = parts[0]
UriTable(uri_str) == FirstSegment(Drop(uri_str, 8), "/")

read_resource(e, fs, d, uri_str, f) ==
    LET cfg == get_db_config(e, fs)
    IN  IF ~cfg.ok THEN Raise(cfg.exc, cfg.msg, NoBody(d))
        ELSE IF ~StartsWith(uri_str, "mysql://")
        THEN Raise("ValueError", "Invalid URI scheme: " \o uri_str, NoBody(d))
        ELSE LET body == ReadResourceBody(cfg.config, d, UriTable(uri_str), f)
             IN  IF ~body.raised THEN Return(body.value[1], <<>>, <<>>, <<>>, body)
                 ELSE IF ReadResourceCatches(body.cls)
                 THEN Raise("RuntimeError", "Database error: " \o body.msg, body)
                 ELSE Raise(body.cls, body.msg, body)

-----------------------------------------------------------------------------
(* list_tools                                                              *)

list_tools(d) == Return("", <<>>, <<>>, <<Tool("execute_sql")>>, NoBody(d))

-----------------------------------------------------------------------------
(* call_tool                                                               *)

\* A handler that catches the driver's errors only, as list_resources does.
CallToolCatchesDriverError(cls) == cls = "Error"

\* except Exception
CallToolCatches(cls) == cls \in {"Error", "Exception"}

\* query.strip().upper().startswith(prefix)
HasPrefix(query, prefix) == StartsWith(Upper(Strip(query)), prefix)

\* A classification of the text as submitted, without strip().
ClassifyUnstripped(query) ==
    IF StartsWith(Upper(query), "SHOW TABLES") THEN "tables"
    ELSE IF StartsWith(Upper(query), "SELECT") THEN "rows"
    ELSE "mutation"

\* The branch of the if/elif/else that formats the result.
Classify(query) ==
    IF HasPrefix(query, "SHOW TABLES") THEN "tables"
    ELSE IF HasPrefix(query, "SELECT") THEN "rows"
    ELSE "mutation"

\* "\n".join(["Tables_in_" + database] + [table[0] for table in tables])
CallToolTablesText(database, tables) ==
    Join("\n", <<"Tables_in_" \o database>> \o [i \in 1..Len(tables) |-> tables[i][1].s])

\* A formatter that has drifted from read_resource's: ", " between values.
CallToolRowsTextSpaced(columns, rows) ==
    LET result == [i \in 1..Len(rows) |->
                      Join(", ", [j \in 1..Len(rows[i]) |-> Str(rows[i][j])])]
    IN  Join("\n", <<Join(", ", columns)>> \o result)

\* [",".join(map(str, row)) for row in rows], joined under the column header.
CallToolRowsText(columns, rows) ==
    LET result == [i \in 1..Len(rows) |->
                      Join(",", [j \in 1..Len(rows[i]) |-> Str(rows[i][j])])]
    IN  Join("\n", <<Join(",", columns)>> \o result)

CallToolCountText(rowcount) ==
    "Query executed successfully. Rows affected: " \o ToString(rowcount)

CallToolBody(config, d, query, f) ==
    LET engine == create_engine(config)
        args == <<engine.connect_args>>
        res == Execute(d, config["database"], query)
        branch == Classify(query)
        tr == Trace(1, 1, args, <<query>>, FALSE)
        committed == Trace(1, 1, args, <<query>>, TRUE)
        inner ==
            IF f.at = "execute" THEN Raised(f.cls, FaultMsg(f), f, tr, d)
            ELSE IF ~res.ok THEN Raised("Error", res.msg, NoFault, tr, d)
            ELSE IF branch = "tables"
            THEN IF f.at = "fetchall" THEN Raised(f.cls, FaultMsg(f), f, tr, d)
                 ELSE Returned(CallToolTablesText(config["database"], res.rows), tr, d)
            ELSE IF branch = "rows"
            THEN IF f.at = "description" THEN Raised(f.cls, FaultMsg(f), f, tr, d)
                 ELSE IF f.at = "fetchall" THEN Raised(f.cls, FaultMsg(f), f, tr, d)
                 ELSE Returned(CallToolRowsText(res.columns, res.rows), tr, d)
            ELSE IF f.at = "commit" THEN Raised(f.cls, FaultMsg(f), f, tr, d)
            ELSE Returned(CallToolCountText(res.rowcount), committed, res.after)
    IN  IF f.at = "raw_connection"
        THEN Raised(f.cls, FaultMsg(f), f, Trace(0, 0, args, <<>>, FALSE), d)
        ELSE inner

\* call_tool with get_db_config() moved inside the try block.
call_tool_ConfigInTry(e, fs, d, name, arguments, f) ==
    LET cfg == get_db_config(e, fs)
    IN  IF name # "execute_sql"
        THEN Raise("ValueError", "Unknown tool: " \o name, NoBody(d))
        ELSE IF ~Truthy(arguments)
        THEN Raise("ValueError", "Query is required", NoBody(d))
        ELSE IF ~cfg.ok
        THEN Return("", <<TextContent("Error executing query: " \o cfg.msg)>>, <<>>, <<>>,
                    NoBody(d))
        ELSE LET body == CallToolBody(cfg.config, d, arguments[1], f)
             IN  IF ~body.raised
                 THEN Return("", <<TextContent(body.value[1])>>, <<>>, <<>>, body)
                 ELSE Return("", <<TextContent("Error executing query: " \o body.msg)>>,
                             <<>>, <<>>, body)

\* arguments is <<>> when it has no "query" key and <<text>> when it has one.
call_tool(e, fs, d, name, arguments, f) ==
    LET cfg == get_db_config(e, fs)
    IN  IF ~cfg.ok THEN Raise(cfg.exc, cfg.msg, NoBody(d))
        ELSE IF name # "execute_sql"
        THEN Raise("ValueError", "Unknown tool: " \o name, NoBody(d))
        ELSE IF ~Truthy(arguments)
        THEN Raise("ValueError", "Query is required", NoBody(d))
        ELSE LET body == CallToolBody(cfg.config, d, arguments[1], f)
             IN  IF ~body.raised
                 THEN Return("", <<TextContent(body.value[1])>>, <<>>, <<>>, body)
                 ELSE IF CallToolCatches(body.cls)
                 THEN Return("", <<TextContent("Error executing query: " \o body.msg)>>,
                             <<>>, <<>>, body)
                 ELSE Raise(body.cls, body.msg, body)

-----------------------------------------------------------------------------
(* The state: the process environment and the files it names, the database *)
(* as committed, the sessions opened and not closed, and the last request  *)
(* with its result.                                                        *)

\* The LIMIT of read_resource's statement; table g has that many rows or more.
BigBase == 100

SeqsUpTo(S, n) == UNION {[1..k -> S] : k \in 0..n}

RowVals == {<<IntV(1), StrV("x")>>, <<IntV(2), NullV>>}

TableT(rows) == Table("t", <<"a", "b">>, rows)

TableG(n) == Table("g", <<"n">>, [i \in 1..n |-> <<IntV(i)>>])

\* A table whose name needs quoting in SQL and holds a path separator.
TableTX == Table("t/x", <<"c">>, << <<StrV("z")>> >>)

Databases ==
    {<<>>}
    \cup {<<TableT(rows)>> : rows \in SeqsUpTo(RowVals, MaxRows)}
    \cup {<<TableT(<< <<IntV(1), StrV("x")>> >>), TableTX>>}
    \cup {<<TableG(n), TableT(<<>>)>> : n \in BigBase..(BigBase + BigExtra)}

DefaultDatabase == <<TableT(<< <<IntV(1), StrV("x")>> >>)>>

CaPath == "/ca.pem"

Environments ==
    [MYSQL_HOST : {<<>>, <<"db.example">>},
     MYSQL_PORT : {<<>>, <<"3307">>, <<"x">>},
     MYSQL_USER : {<<>>, <<"">>, <<"u">>},
     MYSQL_PASSWORD : {<<>>, <<"p">>},
     MYSQL_DATABASE : {<<"">>, <<"db">>},
     MYSQL_SSL_CA : {<<>>, <<"">>, <<CaPath>>}]

RequiredSet(e) ==
    Truthy(e.MYSQL_USER) /\ Truthy(e.MYSQL_PASSWORD) /\ Truthy(e.MYSQL_DATABASE)

DefaultEnvironment ==
    [MYSQL_HOST |-> <<>>, MYSQL_PORT |-> <<>>, MYSQL_USER |-> <<"u">>,
     MYSQL_PASSWORD |-> <<"p">>, MYSQL_DATABASE |-> <<"db">>, MYSQL_SSL_CA |-> <<>>]

TableNames == {"t", "g", "t/x", "nosuch"}

Uris == {Resource(n).uri : n \in TableNames} \cup {"http://t/data"}

SelectLimit(n) == "SELECT * FROM " \o n \o " LIMIT 100"

Queries ==
    {SelectLimit(n) : n \in TableNames}
    \cup {"SHOW TABLES", " show tables\n", "select * from t", "DELETE FROM t WHERE a=1"}

Arguments == {<<>>, <<"">>} \cup {<<q>> : q \in Queries}

Calls ==
    {<<"execute_sql", a>> : a \in Arguments}
    \cup {<<"drop_database", <<"SHOW TABLES">>>>}

NoRequest ==
    [op |-> "none", uri |-> "", name |-> "", arguments |-> <<>>,
     result |-> Return("", <<>>, <<>>, <<>>, NoBody(<<>>))]

Request(op, uri, name, arguments, result) ==
    [op |-> op, uri |-> uri, name |-> name, arguments |-> arguments,
     result |-> [result EXCEPT !.after = <<>>]]

Init ==
    /\ \/ /\ env \in Environments
          /\ \/ ~RequiredSet(env) /\ env.MYSQL_SSL_CA # <<"">>
             \/ RequiredSet(env) /\ env.MYSQL_HOST = <<>>
          /\ files \in SUBSET {CaPath}
          /\ env.MYSQL_SSL_CA # <<CaPath>> => files = {}
          /\ db = DefaultDatabase
       \/ env = DefaultEnvironment /\ files = {} /\ db \in Databases
    /\ openSessions = 0
    /\ last = NoRequest

\* The effect of a handled request on the state.
Handled(op, uri, name, arguments, result) ==
    /\ last' = Request(op, uri, name, arguments, result)
    /\ db' = result.after
    /\ openSessions' = openSessions + result.trace.opened - result.trace.closed
    /\ UNCHANGED <<env, files>>

ListResources ==
    /\ openSessions < MaxOpen
    /\ \E f \in Faults :
          \E r \in {list_resources(env, files, db, f)} :
             Handled("list_resources", "", "", <<>>, r)

ReadResource ==
    \E uri \in Uris, f \in Faults :
        \E r \in {read_resource(env, files, db, uri, f)} :
           Handled("read_resource", uri, "", <<>>, r)

ListTools == Handled("list_tools", "", "", <<>>, list_tools(db))

CallTool ==
    \E call \in Calls, f \in Faults :
        \E r \in {call_tool(env, files, db, call[1], call[2], f)} :
           Handled("call_tool", "", call[1], call[2], r)

Next == ListResources \/ ReadResource \/ ListTools \/ CallTool

Spec == Init /\ [][Next]_vars

-----------------------------------------------------------------------------
(* Properties.  R is the result of the last request; Resolved is what      *)
(* configuration resolution gives in the current environment.              *)

R == last.result

Resolved == get_db_config(env, files)

\* The exception that left the try body of the last request.
BodyError == R.error[1]

\* The request is a call of execute_sql with a non-empty query.
IsExecuteSql ==
    last.op = "call_tool" /\ last.name = "execute_sql"
    /\ last.arguments # <<>> /\ last.arguments[1] # ""

\* C1: a call of execute_sql with a non-empty query, under a configuration that
\* resolves, always returns exactly one text item, and when any exception was
\* raised while opening the session, executing, fetching or committing, the
\* item's body is "Error executing query: " followed by the exception's message.
C1_ErrorsAsText ==
    (IsExecuteSql /\ Resolved.ok) =>
        /\ R.kind = "return"
        /\ Len(R.content) = 1
        /\ Head(R.content).type = "text"
        /\ R.error # <<>> => Head(R.content).text = "Error executing query: " \o BodyError.msg

C1_Witness ==
    /\ IsExecuteSql
    /\ R.fired = Fault("raw_connection", "Exception")
    /\ R.content = <<TextContent("Error executing query: raw_connection failed")>>

\* C2: no session opened by a finished request remains open: the last request
\* closed every session it opened, and none is left open by earlier requests.
C2_SessionsClosed == openSessions = 0 /\ R.trace.opened = R.trace.closed

\* C3: list_resources returns an empty sequence, and does not raise, whenever
\* opening the session, executing SHOW TABLES or fetching its rows failed.
C3_ListFailSoft ==
    (last.op = "list_resources" /\ R.error # <<>>) =>
        R.kind = "return" /\ R.resources = <<>>

\* The request carries an invalid argument: a URI without the mysql:// prefix,
\* an unknown tool name, or a missing or empty query.
InvalidArgument ==
    \/ last.op = "read_resource" /\ Take(last.uri, 8) # "mysql://"
    \/ last.op = "call_tool" /\ last.name # "execute_sql"
    \/ last.op = "call_tool" /\ last.arguments \in {<<>>, <<"">>}

InvalidArgumentMsg ==
    IF last.op = "read_resource" THEN "Invalid URI scheme: " \o last.uri
    ELSE IF last.name # "execute_sql" THEN "Unknown tool: " \o last.name
    ELSE "Query is required"

NoDatabaseInteraction ==
    R.trace.opened = 0 /\ R.trace.stmts = <<>> /\ R.trace.connect_args = <<>>

\* C4 as claimed: a request with an invalid argument fails with the
\* invalid-argument error and without any database interaction.
C4_Original ==
    InvalidArgument =>
        R.kind = "raise" /\ R.msg = InvalidArgumentMsg /\ NoDatabaseInteraction

\* C4 as amended: a request with an invalid argument fails without any database
\* interaction; with the invalid-argument error when the configuration
\* resolves, and with the configuration's error when it does not.
C4_InvalidArgumentNoDatabase ==
    InvalidArgument =>
        /\ R.kind = "raise"
        /\ R.exc = "ValueError"
        /\ NoDatabaseInteraction
        /\ R.msg = IF Resolved.ok THEN InvalidArgumentMsg ELSE Resolved.msg

C4_Witness ==
    /\ last.op = "call_tool" /\ last.name = "execute_sql" /\ last.arguments = <<"">>
    /\ Resolved.ok
    /\ R.kind = "raise" /\ R.msg = "Query is required"

\* C5: a session opened under a configuration with MYSQL_SSL_CA set is opened
\* with that CA file and with certificate and identity verification both on;
\* one opened without MYSQL_SSL_CA is opened with no SSL option.
C5_SslOptions ==
    R.trace.connect_args # <<>> =>
        LET args == R.trace.connect_args[1]
        IN  IF env.MYSQL_SSL_CA \in {<<>>, <<"">>}
            THEN args = [no_options |-> TRUE]
            ELSE /\ DOMAIN args = {"ssl_ca", "ssl_verify_cert", "ssl_verify_identity"}
                 /\ args["ssl_ca"] = env.MYSQL_SSL_CA[1]
                 /\ args["ssl_verify_cert"]
                 /\ args["ssl_verify_identity"]

\* One of MYSQL_USER, MYSQL_PASSWORD, MYSQL_DATABASE is unset or empty.
RequiredMissing ==
    \E k \in {"MYSQL_USER", "MYSQL_PASSWORD", "MYSQL_DATABASE"} : env[k] \in {<<>>, <<"">>}

\* C6: when a required setting is unset or empty, resolution fails with
\* ValueError whatever the other settings are, and list_resources,
\* read_resource and call_tool each fail with that same error, whatever their
\* arguments, without opening a session or executing a statement.
C6_ConfigurationError ==
    RequiredMissing =>
        /\ ~Resolved.ok
        /\ Resolved.exc = "ValueError"
        /\ Resolved.msg \in {MissingConfigMsg, BadPortMsg("x")}
        /\ env.MYSQL_PORT # <<"x">> => Resolved.msg = MissingConfigMsg
        /\ last.op \in {"list_resources", "read_resource", "call_tool"} =>
              /\ R.kind = "raise"
              /\ R.exc = Resolved.exc
              /\ R.msg = Resolved.msg
              /\ NoDatabaseInteraction

C6_Witness ==
    /\ env.MYSQL_PASSWORD = <<>> /\ env.MYSQL_SSL_CA = <<CaPath>> /\ env.MYSQL_HOST # <<>>
    /\ IsExecuteSql
    /\ R.kind = "raise" /\ R.msg = MissingConfigMsg

\* The step is a call_tool that executed its query without any exception.
ExecutedStep ==
    last'.op = "call_tool" /\ last'.result.kind = "return" /\ last'.result.error = <<>>

\* What a call_tool step that executed its query did, by the trimmed,
\* upper-cased prefix of the query; res is the server's answer to the query
\* in the state before the step.
C7_Step ==
    \A res \in {Execute(db, env.MYSQL_DATABASE[1], last'.arguments[1])} :
    LET q == last'.arguments[1]
        prefix == Upper(Strip(q))
        database == env.MYSQL_DATABASE[1]
        text == Head(last'.result.content).text
        committed == last'.result.trace.committed
        line(row) == Join(",", [j \in 1..Len(row) |-> Str(row[j])])
    IN  IF Take(prefix, 11) = "SHOW TABLES"
        THEN /\ text = Join("\n", <<"Tables_in_" \o database>>
                                  \o [i \in 1..Len(db) |-> db[i].name])
             /\ ~committed /\ db' = db
        ELSE IF Take(prefix, 6) = "SELECT"
        THEN /\ text = Join("\n", <<Join(",", res.columns)>>
                                  \o [i \in 1..Len(res.rows) |-> line(res.rows[i])])
             /\ ~committed /\ db' = db
        ELSE /\ text = "Query executed successfully. Rows affected: "
                       \o ToString(res.rowcount)
             /\ committed /\ db' = res.after

\* C7: the result of an executed query is shaped by the trimmed, upper-cased
\* prefix of its text alone: SHOW TABLES lists the tables under the header
\* Tables_in_{database}, SELECT gives the column header and one line per row,
\* anything else is committed and answered with the affected-row count; and
\* the transaction is committed exactly in that last case.
C7_ResultShape == [][ExecutedStep => C7_Step]_vars

C7_Witness ==
    /\ IsExecuteSql /\ last.arguments = <<"DELETE FROM t WHERE a=1">>
    /\ R.trace.committed
    /\ R.content = <<TextContent("Query executed successfully. Rows affected: 1")>>
    /\ db = <<TableT(<<>>)>>

\* C8: a read_resource of a mysql:// URI in which opening the session,
\* executing the SELECT, reading the column metadata or fetching the rows
\* raised fails with RuntimeError "Database error: {message}" and returns
\* nothing.
C8_ReadPropagates ==
    (last.op = "read_resource" /\ Take(last.uri, 8) = "mysql://" /\ R.error # <<>>) =>
        /\ R.kind = "raise"
        /\ R.exc = "RuntimeError"
        /\ R.msg = "Database error: " \o BodyError.msg
        /\ R.text = ""

C8_Witness ==
    /\ last.op = "read_resource" /\ last.uri = "mysql://t/data"
    /\ R.fired = Fault("description", "Exception")
    /\ R.kind = "raise" /\ R.exc = "RuntimeError"
    /\ R.msg = "Database error: description failed"

\* list_resources returned the catalog without any exception.
Listed == last.op = "list_resources" /\ R.kind = "return" /\ R.error = <<>>

\* read_resource was called on the URI list_resources gives table t, under a
\* configuration that resolves and with no driver call failing on its own.
ReadOf(t) ==
    /\ last.op = "read_resource" /\ last.uri = "mysql://" \o t \o "/data"
    /\ Resolved.ok /\ R.fired = NoFault

\* The column names, then one line per row.
TableText(columns, rows) ==
    LET line(row) == Join(",", [j \in 1..Len(row) |-> Str(row[j])])
    IN  Join("\n", <<Join(",", columns)>> \o [i \in 1..Len(rows) |-> line(rows[i])])

\* C9 as claimed: every table t is listed under mysql://{t}/data, and reading
\* that URI reads table t and returns its header and one line per row.
C9_Original ==
    /\ Listed =>
          \A t \in TableNamesOf(db) :
             \E i \in 1..Len(R.resources) : R.resources[i].uri = "mysql://" \o t \o "/data"
    /\ \A t \in TableNamesOf(db) :
          ReadOf(t) =>
             /\ R.kind = "return"
             /\ R.trace.stmts = <<"SELECT * FROM " \o t \o " LIMIT 100">>
             /\ R.text = TableText(TableNamed(db, t).columns, TableNamed(db, t).rows)

\* C9 as amended: every table t is listed under mysql://{t}/data; reading that
\* URI executes the SELECT on the first path segment of t's name; and when t's
\* name is a plain identifier, that reads table t and returns its header and
\* one line per row for the first 100 rows.
C9_RoundTrip ==
    /\ Listed =>
          \A t \in TableNamesOf(db) :
             \E i \in 1..Len(R.resources) : R.resources[i].uri = "mysql://" \o t \o "/data"
    /\ \A t \in TableNamesOf(db) :
          ReadOf(t) => R.trace.stmts = <<SelectLimit(FirstSegment(t, "/"))>>
    /\ \A t \in TableNamesOf(db) :
          (IsPlainIdent(t) /\ ReadOf(t)) =>
             /\ R.kind = "return"
             /\ R.trace.stmts = <<"SELECT * FROM " \o t \o " LIMIT 100">>
             /\ R.text = TableText(TableNamed(db, t).columns,
                                   [i \in 1..IF Len(TableNamed(db, t).rows) < 100
                                             THEN Len(TableNamed(db, t).rows) ELSE 100 |->
                                       TableNamed(db, t).rows[i]])

C9_Witness ==
    /\ ReadOf("g") /\ "g" \in TableNamesOf(db)
    /\ Len(TableNamed(db, "g").rows) > 100
    /\ R.kind = "return"
    /\ Len(R.text) = 1 + 9 * 2 + 90 * 3 + 4

\* The text call_tool gives for the statement stmt in the current state.
SelectText(stmt) ==
    Head(call_tool(env, files, db, "execute_sql", <<stmt>>, NoFault).content).text

\* C10 as claimed: for every table t of at most 100 rows, read_resource on
\* mysql://{t}/data returns the text call_tool returns for
\* SELECT * FROM {t} LIMIT 100.
C10_Original ==
    \A t \in TableNamesOf(db) :
        (Len(TableNamed(db, t).rows) <= 100 /\ ReadOf(t)) =>
            R.kind = "return" /\ R.text = SelectText(SelectLimit(t))

\* read_resource was called on a mysql:// URI under a configuration that
\* resolves and with no driver call failing on its own.
ReadExecuted ==
    /\ last.op = "read_resource" /\ Take(last.uri, 8) = "mysql://"
    /\ Resolved.ok /\ R.fired = NoFault

\* C10 as amended: the text read_resource returns is the text call_tool
\* returns for the statement read_resource executed, in the same database
\* state; and when that statement fails, read_resource raises with the message
\* call_tool reports as text.
C10_SameFormat ==
    ReadExecuted =>
        /\ Len(R.trace.stmts) = 1
        /\ \A text \in {SelectText(R.trace.stmts[1])} :
              IF R.kind = "return"
              THEN R.text = text
              ELSE /\ R.msg = "Database error: " \o BodyError.msg
                   /\ text = "Error executing query: " \o BodyError.msg

C10_Witness ==
    /\ ReadExecuted /\ last.uri = "mysql://t/data"
    /\ db = <<TableT(<< <<IntV(2), NullV>>, <<IntV(1), StrV("x")>> >>)>>
    /\ R.text = "a,b\n2,None\n1,x"
    /\ SelectText(R.trace.stmts[1]) = "a,b\n2,None\n1,x"

====
